---- MODULE Spec2Model ----
(***************************************************************************)
(* ChatScreen (src/app/(tabs)/index.tsx): the session list with its active *)
(* session, the send handler with the streaming XMLHttpRequest, the        *)
(* incremental "text" field scanner of onprogress, and the load/save       *)
(* effects over AsyncStorage.                                              *)
(*                                                                         *)
(* Strings are sequences of one-character strings.  A fixed literal of the *)
(* source (an error message, the prompt template) is one element holding   *)
(* the literal.  An id is the clock reading Date.now() it was made from    *)
(* (toString of a number is injective).                                    *)
(***************************************************************************)
EXTENDS Integers, Sequences, FiniteSets, TLC

VARIABLES
    now,              \* Date.now()
    GEMINI_API_KEY,   \* TRUE when process.env.EXPO_PUBLIC_GEMINI_API_KEY is set
    store,            \* AsyncStorage value under CHAT_HISTORY_KEY
    load,             \* loadHistory: the getItem result, whether it still awaits,
                      \* whether its updates have been rendered
    sessions,         \* useState sessions (every queued update applied)
    activeSessionId,  \* useState activeSessionId
    isLoading,        \* useState isLoading
    rendered,         \* the values the handlers of the last render closed over
    pc,               \* handleSendMessage: "idle", "awaiting" the engine, "resuming" after it
    target,           \* activeSessionId as captured by the running handleSendMessage
    userMessage,      \* userMessage of the running handleSendMessage
    targetLost,       \* history: sessions held no session target at some point of this send
    targetDeleted,    \* history: deleteSession was called on target during this send
    xhr,              \* the XMLHttpRequest of the running streamGeminiResponse
    promise,          \* the promise of streamGeminiResponse
    chunks,           \* the onChunk calls of the current send, in order
    sends             \* number of handleSendMessage calls that have returned

vars == <<now, GEMINI_API_KEY, store, load, sessions, activeSessionId,
          isLoading, rendered, pc, target, userMessage, targetLost, targetDeleted,
          xhr, promise, chunks, sends>>

\* ------------------------------------------------------------ configuration

MAX_HISTORY_LENGTH == 100
CONTEXT_WINDOW_SIZE == 10

\* ------------------------------------------------------------------- bounds

MaxTicks == 1
MaxSessions == 2
MaxSends == 1
MaxPrior == 12
MaxPersist == 103

\* --------------------------------------------------------------- characters

QUOTE == "\""
BACKSLASH == "\\"
LF == "\n"
TAB == "\t"
\* backspace and form feed, which have no escape in a TLA+ string
BS == "BS"
FF == "FF"
CR == "\r"

\* \s of a JavaScript regular expression, among the characters used here
IsSpace(c) == c \in {" ", LF, TAB, CR, FF}

Min(a, b) == IF a < b THEN a ELSE b

RECURSIVE Flatten(_)
Flatten(ss) == IF ss = <<>> THEN <<>> ELSE Head(ss) \o Flatten(Tail(ss))

\* mutant of Substring: the whole responseText is scanned again
SubstringFromStart(s, from) == s

\* String.prototype.substring(from) with from a length already seen
Substring(s, from) == SubSeq(s, from + 1, Len(s))

\* Array.prototype.slice(0, n)
SliceFront(s, n) == SubSeq(s, 1, Min(Len(s), n))

\* Array.prototype.slice(-n)
SliceBack(s, n) == SubSeq(s, Len(s) - Min(Len(s), n) + 1, Len(s))

\* String.prototype.trim() === ''
TrimIsEmpty(s) == \A i \in 1..Len(s) : IsSpace(s[i])

\* --------------------------------------------------- the scanner of onprogress

TEXT_KEY == <<QUOTE, "t", "e", "x", "t", QUOTE>>

\* \s* : the index of the first character at or after i that is not white space
RECURSIVE SkipSpace(_, _)
SkipSpace(s, i) ==
    IF i <= Len(s) /\ IsSpace(s[i]) THEN SkipSpace(s, i + 1) ELSE i

\* ((?:\\"|[^"])*)" from index i: the index of the closing quote the
\* backtracking matcher settles on, 0 when it fails.  Each round tries \" first,
\* then one character that is no quote, then leaves the star.
RECURSIVE MatchValue(_, _)
MatchValue(s, i) ==
    IF i > Len(s) THEN 0
    ELSE LET viaEscapedQuote ==
                 IF s[i] = BACKSLASH /\ i + 1 <= Len(s) /\ s[i + 1] = QUOTE
                 THEN MatchValue(s, i + 2) ELSE 0
             viaOther == IF s[i] # QUOTE THEN MatchValue(s, i + 1) ELSE 0
         IN  IF viaEscapedQuote # 0 THEN viaEscapedQuote
             ELSE IF viaOther # 0 THEN viaOther
             ELSE IF s[i] = QUOTE THEN i
             ELSE 0

\* exec returning null
NoMatch == [index |-> 0, open |-> 0, close |-> 0]

\* /"text"\s*:\s*"((?:\\"|[^"])*)"/ anchored at p: index is p, open and close are
\* the indexes of the value's two quotes, close = 0 when there is no match at p
MatchAt(s, p) ==
    IF p + 5 > Len(s) \/ SubSeq(s, p, p + 5) # TEXT_KEY THEN NoMatch
    ELSE LET c == SkipSpace(s, p + 6) IN
         IF c > Len(s) \/ s[c] # ":" THEN NoMatch
         ELSE LET q == SkipSpace(s, c + 1) IN
              IF q > Len(s) \/ s[q] # QUOTE THEN NoMatch
              ELSE [index |-> p, open |-> q, close |-> MatchValue(s, q + 1)]

\* regex.exec with lastIndex = from - 1: the leftmost match at or after from
RECURSIVE RegexExec(_, _)
RegexExec(s, from) ==
    IF from > Len(s) THEN NoMatch
    ELSE LET m == MatchAt(s, from) IN
         IF m.close # 0 THEN m ELSE RegexExec(s, from + 1)

HEX == {"0", "1", "2", "3", "4", "5", "6", "7", "8", "9",
        "a", "b", "c", "d", "e", "f", "A", "B", "C", "D", "E", "F"}

\* the character a JSON two-character escape stands for
Unescape(c) ==
    CASE c = QUOTE -> QUOTE
      [] c = BACKSLASH -> BACKSLASH
      [] c = "/" -> "/"
      [] c = "b" -> BS
      [] c = "f" -> FF
      [] c = "n" -> LF
      [] c = "r" -> CR
      [] c = "t" -> TAB

\* JSON.parse(`"${raw}"`) from index i: ok = FALSE where it throws.  A \uXXXX
\* escape decodes to one element naming the code unit.
RECURSIVE JsonDecode(_, _)
JsonDecode(raw, i) ==
    IF i > Len(raw) THEN [ok |-> TRUE, val |-> <<>>]
    ELSE IF raw[i] = QUOTE \/ raw[i] \in {LF, TAB, BS, FF, CR}
         THEN [ok |-> FALSE, val |-> <<>>]
    ELSE IF raw[i] # BACKSLASH
         THEN LET r == JsonDecode(raw, i + 1) IN
              [ok |-> r.ok, val |-> <<raw[i]>> \o r.val]
    ELSE IF i = Len(raw) THEN [ok |-> FALSE, val |-> <<>>]
    ELSE IF raw[i + 1] \in {QUOTE, BACKSLASH, "/", "b", "f", "n", "r", "t"}
         THEN LET r == JsonDecode(raw, i + 2) IN
              [ok |-> r.ok, val |-> <<Unescape(raw[i + 1])>> \o r.val]
    ELSE IF raw[i + 1] = "u" /\ i + 5 <= Len(raw)
              /\ \A k \in (i + 2)..(i + 5) : raw[k] \in HEX
         THEN LET r == JsonDecode(raw, i + 6) IN
              [ok |-> r.ok,
               val |-> <<"\\u" \o raw[i + 2] \o raw[i + 3] \o raw[i + 4] \o raw[i + 5]>>
                       \o r.val]
    ELSE [ok |-> FALSE, val |-> <<>>]

\* try { JSON.parse(`"${match[1]}"`) } catch { match[1] }
DecodedText(raw) ==
    LET d == JsonDecode(raw, 1) IN IF d.ok THEN d.val ELSE raw

\* the while loop of onprogress over newText: the arguments of its onChunk
\* calls, in order
RECURSIVE ScanFrom(_, _)
ScanFrom(newText, from) ==
    LET m == RegexExec(newText, from) IN
    IF m.close = 0 THEN <<>>
    ELSE <<DecodedText(SubSeq(newText, m.open + 1, m.close - 1))>>
         \o ScanFrom(newText, m.close + 1)

ScanNewText(newText) == ScanFrom(newText, 1)

\* ------------------------------------------------------------ data and texts

NULL == 0

Message(id, text, isFromUser) == [id |-> id, text |-> text, isFromUser |-> isFromUser]

ChatSession(id, messages) == [id |-> id, messages |-> messages]

Ids(ss) == {ss[i].id : i \in 1..Len(ss)}

\* sessions.find(s => s.id === id): the index of the first such session, 0 for undefined
Find(ss, id) ==
    IF id \in Ids(ss) THEN CHOOSE i \in 1..Len(ss) :
                               ss[i].id = id /\ \A j \in 1..(i - 1) : ss[j].id # id
    ELSE 0

\* sessions.filter(s => s.id !== id)
RECURSIVE Filter(_, _)
Filter(ss, id) ==
    IF ss = <<>> THEN <<>>
    ELSE (IF Head(ss).id # id THEN <<Head(ss)>> ELSE <<>>) \o Filter(Tail(ss), id)

API_KEY_ERROR == <<"Error: API Key is not configured. Please check your .env file.">>

NetworkError(status) ==
    <<"\n\n**Error:** ", "Network request failed. Status: ", ToString(status)>>

FullPrompt(text) ==
    <<"Please format your response in Markdown. Here is my question: ">> \o text

\* mutant of History: every message of the session is sent
HistoryOfAll(messages, text) ==
    [i \in 1..Len(messages) |->
        [role |-> IF messages[i].isFromUser THEN "user" ELSE "model",
         parts |-> <<[text |-> messages[i].text]>>]]
    \o <<[role |-> "user", parts |-> <<[text |-> FullPrompt(text)]>>]>>

\* history of handleSendMessage: the trailing messages as GeminiContent, then the prompt
GeminiContent(role, text) == [role |-> role, parts |-> <<[text |-> text]>>]

History(messages, text) ==
    LET recentMessages == SliceBack(messages, CONTEXT_WINDOW_SIZE) IN
    [i \in 1..Len(recentMessages) |->
        GeminiContent(IF recentMessages[i].isFromUser THEN "user" ELSE "model",
                      recentMessages[i].text)]
    \o <<GeminiContent("user", FullPrompt(text))>>

\* --------------------------------------------------------- the state updates

\* prevSessions => [newSession, ...prevSessions]
Prepend(prev, newSession) == <<newSession>> \o prev

\* prev => prev.map(session => session.id === id ? {...session, messages:
\*         [...session.messages, userMessage, aiMessagePlaceholder]} : session)
AppendPair(prev, id, user, placeholder) ==
    [i \in 1..Len(prev) |->
        IF prev[i].id = id
        THEN [prev[i] EXCEPT !.messages = @ \o <<user, placeholder>>]
        ELSE prev[i]]

\* mutant of OnChunk: with no session of that id, the first session takes the chunk
OnChunkOrFirst(prev, id, chunk) ==
    [i \in 1..Len(prev) |->
        IF (prev[i].id = id \/ (id \notin Ids(prev) /\ i = 1)) /\ prev[i].messages # <<>>
        THEN LET n == Len(prev[i].messages)
                 lastMessage == prev[i].messages[n]
                 updatedMessage == [lastMessage EXCEPT !.text = @ \o chunk]
             IN  [prev[i] EXCEPT !.messages = SubSeq(@, 1, n - 1) \o <<updatedMessage>>]
        ELSE prev[i]]

\* mutant of OnChunk: the chunk goes to the session that is active now
OnChunkIntoActive(prev, id, chunk) ==
    [i \in 1..Len(prev) |->
        IF prev[i].id = activeSessionId /\ prev[i].messages # <<>>
        THEN LET n == Len(prev[i].messages)
                 lastMessage == prev[i].messages[n]
                 updatedMessage == [lastMessage EXCEPT !.text = @ \o chunk]
             IN  [prev[i] EXCEPT !.messages = SubSeq(@, 1, n - 1) \o <<updatedMessage>>]
        ELSE prev[i]]

\* the update of onChunk
OnChunk(prev, id, chunk) ==
    [i \in 1..Len(prev) |->
        IF prev[i].id = id /\ prev[i].messages # <<>>
        THEN LET n == Len(prev[i].messages)
                 lastMessage == prev[i].messages[n]
                 updatedMessage == [lastMessage EXCEPT !.text = @ \o chunk]
             IN  [prev[i] EXCEPT !.messages = SubSeq(@, 1, n - 1) \o <<updatedMessage>>]
        ELSE prev[i]]

RECURSIVE OnChunks(_, _, _)
OnChunks(prev, id, cs) ==
    IF cs = <<>> THEN prev ELSE OnChunks(OnChunk(prev, id, Head(cs)), id, Tail(cs))

\* ---------------------------------------------------------------- the store

ABSENT == [kind |-> "absent", value |-> <<>>]
MALFORMED == [kind |-> "malformed", value |-> <<>>]
Stored(ss) == [kind |-> "json", value |-> ss]

\* mutant of HistoryToSave: the whole list is written
HistoryToSaveUncut(ss) == ss

\* historyToSave of saveHistory
HistoryToSave(ss) == SliceFront(ss, MAX_HISTORY_LENGTH)

\* what an earlier run of the application left in the store
OldSessions ==
    <<ChatSession(2, <<Message(2, <<"y", "o">>, TRUE), Message(3, <<"o", "k">>, FALSE)>>),
      ChatSession(1, <<>>)>>

InitialStores == {ABSENT, MALFORMED, Stored(<<>>), Stored(OldSessions)}

\* ----------------------------------------------------------------- rendering

Rendered(s, a, l) == [sessions |-> s, activeSessionId |-> a, isLoading |-> l]

\* the save effect, run after a render r whose sessions or isLoading changed
SaveHistory(r) ==
    IF (r.sessions # rendered.sessions \/ r.isLoading # rendered.isLoading)
       /\ ~r.isLoading /\ r.sessions # <<>>
    THEN store' = Stored(HistoryToSave(r.sessions))
    ELSE store' = store

\* a render with the values r: the handlers close over r, then the effects run
Commit(r) == rendered' = r /\ SaveHistory(r)

\* no continuation of an await is queued: a new task may start
TaskReady == pc # "resuming"

UNSENT == [readyState |-> "unsent", body |-> <<>>, status |-> 0,
           lastResponseLength |-> 0, contents |-> <<>>]

\* ------------------------------------------------------- what the server sends

TextField(value) == TEXT_KEY \o <<":", QUOTE>> \o value \o <<QUOTE>>

\* a response body with the two text fields "He" and "llo"
HelloBody == TextField(<<"H", "e">>) \o TextField(<<"l", "l", "o">>)

Bodies == {HelloBody}

\* the final status of an exchange that completes
Statuses == {200, 500}

\* xhr.status when the transport fails: no status line yet, or a 200 cut short
ErrorStatuses == {0, 200}

InputTexts == {<<>>, <<" ">>, <<"h", "i">>}

\* ---------------------------------------------------------------------- Init

\* userMessage while no handleSendMessage runs
NoMessage == Message(NULL, <<>>, TRUE)

\* the clock when this run starts: later than every id of OldSessions
StartOfRun == Len(OldSessions) + 2

\* the component is mounted: the first render is done, its save effect has
\* returned on the empty list, loadHistory awaits getItem
Init ==
    /\ now = StartOfRun
    /\ GEMINI_API_KEY \in BOOLEAN
    /\ store \in InitialStores
    /\ load = [awaiting |-> TRUE, storedHistory |-> store, committed |-> FALSE]
    /\ sessions = <<>>
    /\ activeSessionId = NULL
    /\ isLoading = FALSE
    /\ rendered = Rendered(<<>>, NULL, FALSE)
    /\ pc = "idle"
    /\ target = NULL
    /\ userMessage = NoMessage
    /\ targetLost = FALSE
    /\ targetDeleted = FALSE
    /\ xhr = UNSENT
    /\ promise = "none"
    /\ chunks = <<>>
    /\ sends = 0

\* ------------------------------------------------------------------- actions

\* a millisecond passes
Tick ==
    /\ TaskReady
    /\ now < StartOfRun + MaxTicks
    /\ now' = now + 1
    /\ UNCHANGED <<GEMINI_API_KEY, store, load, sessions, activeSessionId, isLoading,
                   rendered, pc, target, userMessage, targetLost, targetDeleted,
                   xhr, promise,
                   chunks, sends>>

\* loadHistory after its await: the updates are queued, no render yet
LoadHistory ==
    /\ TaskReady
    /\ load.awaiting
    /\ load' = [load EXCEPT !.awaiting = FALSE]
    /\ IF load.storedHistory.kind = "json" /\ Len(load.storedHistory.value) > 0
       THEN /\ sessions' = load.storedHistory.value
            /\ activeSessionId' = load.storedHistory.value[1].id
       ELSE \* createNewChat()
            /\ sessions' = Prepend(sessions, ChatSession(now, <<>>))
            /\ activeSessionId' = now
    /\ targetLost' = (targetLost \/ (pc # "idle" /\ target \notin Ids(sessions')))
    /\ targetDeleted' = targetDeleted
    /\ UNCHANGED <<now, GEMINI_API_KEY, store, isLoading, rendered, pc,
                   target, userMessage, xhr, promise, chunks, sends>>

\* React renders the queued updates
Render ==
    /\ TaskReady
    /\ rendered # Rendered(sessions, activeSessionId, isLoading)
    /\ Commit(Rendered(sessions, activeSessionId, isLoading))
    /\ load' = [load EXCEPT !.committed = ~load.awaiting]
    /\ UNCHANGED <<now, GEMINI_API_KEY, sessions, activeSessionId, isLoading,
                   pc, target, userMessage, targetLost, targetDeleted,
                   xhr, promise, chunks, sends>>

\* createNewChat pressed in the drawer, with no more than maxSessions sessions after it
createNewChat(maxSessions) ==
    /\ TaskReady
    /\ Len(sessions) < maxSessions /\ Len(rendered.sessions) < maxSessions
    /\ LET newSession == ChatSession(now, <<>>) IN
       /\ sessions' = Prepend(sessions, newSession)
       /\ activeSessionId' = newSession.id
       /\ Commit(Rendered(Prepend(rendered.sessions, newSession), newSession.id,
                          rendered.isLoading))
    /\ UNCHANGED <<now, GEMINI_API_KEY, load, isLoading, pc, target, userMessage,
                   targetLost, targetDeleted, xhr, promise, chunks, sends>>

CreateNewChat == createNewChat(MaxSessions)

\* a row of the drawer pressed
switchToSession(sessionId) ==
    /\ TaskReady
    /\ activeSessionId' = sessionId
    /\ Commit(Rendered(rendered.sessions, sessionId, rendered.isLoading))
    /\ UNCHANGED <<now, GEMINI_API_KEY, load, sessions, isLoading, pc,
                   target, userMessage, targetLost, targetDeleted,
                   xhr, promise, chunks, sends>>

SwitchToSession == \E sessionId \in Ids(rendered.sessions) : switchToSession(sessionId)

\* mutant of deleteSession: the active id is left alone when sessions remain
deleteSessionKeepingActive(sessionId) ==
    /\ TaskReady
    /\ LET newSessions == Filter(rendered.sessions, sessionId)
           newSession == ChatSession(now, <<>>)
       IN  IF rendered.activeSessionId = sessionId /\ Len(newSessions) = 0
           THEN /\ sessions' = <<newSession>>
                /\ activeSessionId' = newSession.id
                /\ Commit(Rendered(<<newSession>>, newSession.id, rendered.isLoading))
           ELSE /\ sessions' = newSessions
                /\ activeSessionId' = activeSessionId
                /\ Commit(Rendered(newSessions, rendered.activeSessionId,
                                   rendered.isLoading))
    /\ targetDeleted' = (targetDeleted \/ (pc # "idle" /\ sessionId = target))
    /\ targetLost' = (targetLost \/ (pc # "idle" /\ (sessionId = target
                                                       \/ target \notin Ids(sessions'))))
    /\ UNCHANGED <<now, GEMINI_API_KEY, load, isLoading, pc, target, userMessage,
                   xhr, promise, chunks, sends>>

\* mutant of deleteSession: no session is made when the last one is deleted
deleteSessionWithoutFallback(sessionId) ==
    /\ TaskReady
    /\ LET newSessions == Filter(rendered.sessions, sessionId)
           newActive == IF rendered.activeSessionId = sessionId /\ Len(newSessions) > 0
                        THEN newSessions[1].id ELSE rendered.activeSessionId
       IN  /\ sessions' = newSessions
           /\ activeSessionId' = IF rendered.activeSessionId = sessionId
                                 THEN newActive ELSE activeSessionId
           /\ Commit(Rendered(newSessions, newActive, rendered.isLoading))
    /\ targetDeleted' = (targetDeleted \/ (pc # "idle" /\ sessionId = target))
    /\ targetLost' = (targetLost \/ (pc # "idle" /\ (sessionId = target
                                                       \/ target \notin Ids(sessions'))))
    /\ UNCHANGED <<now, GEMINI_API_KEY, load, isLoading, pc, target, userMessage,
                   xhr, promise, chunks, sends>>

\* the trash button of a row pressed
deleteSession(sessionId) ==
    /\ TaskReady
    /\ LET newSessions == Filter(rendered.sessions, sessionId)
           newSession == ChatSession(now, <<>>)
       IN  IF rendered.activeSessionId = sessionId
           THEN IF Len(newSessions) > 0
                THEN /\ sessions' = newSessions
                     /\ activeSessionId' = newSessions[1].id
                     /\ Commit(Rendered(newSessions, newSessions[1].id,
                                        rendered.isLoading))
                ELSE /\ sessions' = <<newSession>>
                     /\ activeSessionId' = newSession.id
                     /\ Commit(Rendered(<<newSession>>, newSession.id,
                                        rendered.isLoading))
           ELSE /\ sessions' = newSessions
                /\ activeSessionId' = activeSessionId
                /\ Commit(Rendered(newSessions, rendered.activeSessionId,
                                   rendered.isLoading))
    /\ targetDeleted' = (targetDeleted \/ (pc # "idle" /\ sessionId = target))
    /\ targetLost' = (targetLost \/ (pc # "idle" /\ (sessionId = target
                                                       \/ target \notin Ids(sessions'))))
    /\ UNCHANGED <<now, GEMINI_API_KEY, load, isLoading, pc, target, userMessage,
                   xhr, promise, chunks, sends>>

DeleteSession == \E sessionId \in Ids(rendered.sessions) : deleteSession(sessionId)

\* mutant of SendRefused: a send in flight does not refuse the next one
SendRefusedUnlessLoading(inputText) ==
    \/ TrimIsEmpty(inputText)
    \/ rendered.activeSessionId = NULL
    \/ Find(rendered.sessions, rendered.activeSessionId) = 0

\* mutant of SendRefused: the text is compared without trim()
SendRefusedUntrimmed(inputText) ==
    \/ inputText = <<>>
    \/ rendered.isLoading
    \/ rendered.activeSessionId = NULL
    \/ Find(rendered.sessions, rendered.activeSessionId) = 0

\* the early return of handleSendMessage
SendRefused(inputText) ==
    \/ TrimIsEmpty(inputText)
    \/ rendered.isLoading
    \/ rendered.activeSessionId = NULL
    \/ Find(rendered.sessions, rendered.activeSessionId) = 0

\* mutant of handleSendMessage: streamGeminiResponse sends without looking
\* at GEMINI_API_KEY
handleSendMessageKeyUnchecked(inputText, body) ==
    /\ TaskReady
    /\ IF SendRefused(inputText)
       THEN UNCHANGED vars
       ELSE LET id == rendered.activeSessionId
                activeSession == rendered.sessions[Find(rendered.sessions, id)]
                aiMessagePlaceholder == Message(now + 1, <<>>, FALSE)
                history == History(activeSession.messages, inputText)
            IN  /\ sends < MaxSends
                /\ isLoading' = TRUE
                /\ target' = id
                /\ userMessage' = Message(now, inputText, TRUE)
                /\ targetLost' = (id \notin Ids(sessions))
                /\ targetDeleted' = FALSE
                /\ sessions' = AppendPair(sessions, id, userMessage', aiMessagePlaceholder)
                /\ Commit(Rendered(AppendPair(rendered.sessions, id, userMessage',
                                              aiMessagePlaceholder), id, TRUE))
                /\ chunks' = <<>>
                /\ promise' = "pending"
                /\ pc' = "awaiting"
                /\ xhr' = [readyState |-> "loading", body |-> body,
                           status |-> 0, lastResponseLength |-> 0,
                           contents |-> history]
                /\ UNCHANGED <<now, GEMINI_API_KEY, load, activeSessionId, sends>>

\* handleSendMessage up to its await, with the executor of
\* streamGeminiResponse, which runs inside the call.  inputText is what the
\* input box holds when the handler runs, body what the server will answer.
handleSendMessage(inputText, body) ==
    /\ TaskReady
    /\ IF SendRefused(inputText)
       THEN UNCHANGED vars
       ELSE LET id == rendered.activeSessionId
                activeSession == rendered.sessions[Find(rendered.sessions, id)]
                aiMessagePlaceholder == Message(now + 1, <<>>, FALSE)
                history == History(activeSession.messages, inputText)
                appended == AppendPair(sessions, id, userMessage', aiMessagePlaceholder)
                shown == AppendPair(rendered.sessions, id, userMessage',
                                    aiMessagePlaceholder)
            IN  /\ sends < MaxSends
                /\ isLoading' = TRUE
                /\ target' = id
                /\ userMessage' = Message(now, inputText, TRUE)
                /\ targetLost' = (id \notin Ids(sessions))
                /\ targetDeleted' = FALSE
                /\ IF ~GEMINI_API_KEY
                   THEN /\ sessions' = OnChunk(appended, id, API_KEY_ERROR)
                        /\ Commit(Rendered(OnChunk(shown, id, API_KEY_ERROR),
                                           id, TRUE))
                        /\ chunks' = <<API_KEY_ERROR>>
                        /\ promise' = "rejected"
                        /\ pc' = "resuming"
                        /\ xhr' = UNSENT
                   ELSE /\ sessions' = appended
                        /\ Commit(Rendered(shown, id, TRUE))
                        /\ chunks' = <<>>
                        /\ promise' = "pending"
                        /\ pc' = "awaiting"
                        /\ xhr' = [readyState |-> "loading", body |-> body,
                                   status |-> 0, lastResponseLength |-> 0,
                                   contents |-> history]
                /\ UNCHANGED <<now, GEMINI_API_KEY, load, activeSessionId, sends>>

HandleSendMessage ==
    \E inputText \in InputTexts, body \in Bodies : handleSendMessage(inputText, body)

\* xhr.onprogress with responseText grown to its first length characters
onprogress(length) ==
    /\ TaskReady
    /\ xhr.readyState = "loading"
    /\ LET responseText == SubSeq(xhr.body, 1, length)
           newText == Substring(responseText, xhr.lastResponseLength)
           emitted == ScanNewText(newText)
       IN  /\ xhr' = [xhr EXCEPT !.lastResponseLength = Len(responseText)]
           /\ sessions' = OnChunks(sessions, target, emitted)
           /\ chunks' = chunks \o emitted
    /\ UNCHANGED <<now, GEMINI_API_KEY, store, load, activeSessionId, isLoading,
                   rendered, pc, target, userMessage, targetLost, targetDeleted,
                   promise, sends>>

OnProgress ==
    \E length \in (xhr.lastResponseLength + 1)..Len(xhr.body) : onprogress(length)

\* the exchange finishes without a transport error, the status line having
\* said status: xhr.onloadend
onloadend(status) ==
    /\ TaskReady
    /\ xhr.readyState = "loading"
    /\ xhr.lastResponseLength = Len(xhr.body)
    /\ xhr' = [xhr EXCEPT !.readyState = "done", !.status = status]
    /\ promise' = IF status >= 200 /\ status < 300 THEN "resolved" ELSE "rejected"
    /\ pc' = "resuming"
    /\ UNCHANGED <<now, GEMINI_API_KEY, store, load, sessions, activeSessionId,
                   isLoading, rendered, target, userMessage, targetLost, targetDeleted,
                   chunks, sends>>

OnLoadEnd == \E status \in Statuses : onloadend(status)

\* the transport fails: xhr.onerror, then xhr.onloadend on the settled promise.
\* status is what xhr.status reads then: 0, or the status line already received
onerror(status) ==
    /\ TaskReady
    /\ xhr.readyState = "loading"
    /\ xhr' = [xhr EXCEPT !.readyState = "done", !.status = status]
    /\ sessions' = OnChunk(sessions, target, NetworkError(status))
    /\ chunks' = Append(chunks, NetworkError(status))
    /\ promise' = "rejected"
    /\ pc' = "resuming"
    /\ UNCHANGED <<now, GEMINI_API_KEY, store, load, activeSessionId, isLoading,
                   rendered, target, userMessage, targetLost, targetDeleted, sends>>

OnError == \E status \in ErrorStatuses : onerror(status)

\* mutant of Finally: setIsLoading(false) after the try block, not in finally
FinallyAfterTry ==
    /\ pc = "resuming"
    /\ isLoading' = (promise = "rejected")
    /\ pc' = "idle"
    /\ target' = NULL
    /\ userMessage' = NoMessage
    /\ targetLost' = FALSE
    /\ targetDeleted' = FALSE
    /\ xhr' = UNSENT
    /\ promise' = "none"
    /\ chunks' = <<>>
    /\ sends' = sends + 1
    /\ UNCHANGED <<now, GEMINI_API_KEY, store, load, sessions, activeSessionId,
                   rendered>>

\* handleSendMessage after its await: catch, finally.  The call returns: its
\* closure, the promise and the request are unreachable from here on.
Finally ==
    /\ pc = "resuming"
    /\ isLoading' = FALSE
    /\ pc' = "idle"
    /\ target' = NULL
    /\ userMessage' = NoMessage
    /\ targetLost' = FALSE
    /\ targetDeleted' = FALSE
    /\ xhr' = UNSENT
    /\ promise' = "none"
    /\ chunks' = <<>>
    /\ sends' = sends + 1
    /\ UNCHANGED <<now, GEMINI_API_KEY, store, load, sessions, activeSessionId,
                   rendered>>

Next ==
    \/ Tick
    \/ LoadHistory
    \/ Render
    \/ CreateNewChat
    \/ SwitchToSession
    \/ DeleteSession
    \/ HandleSendMessage
    \/ OnProgress
    \/ OnLoadEnd
    \/ OnError
    \/ Finally

Spec == Init /\ [][Next]_vars

\* -------------------------------------------------- the stream on its own

\* well-formed response bodies: plain fields, white space around the colon,
\* an escaped quote, an escaped line feed, an empty value
StreamBodies ==
    { <<"{">> \o TextField(<<"a", "b">>) \o <<"}">>,
      TextField(<<"a">>) \o <<",">> \o TEXT_KEY \o <<" ", ":", " ", QUOTE, "b", QUOTE>>,
      TextField(<<"a", BACKSLASH, QUOTE, "b">>),
      TextField(<<"a", BACKSLASH, "n">>) \o TextField(<<>>) \o TextField(<<"c">>),
      HelloBody }

\* the first send of a run that found no history: loadHistory has made the
\* first session, it is rendered and saved, "hi" is sent and the request is out
InitStream ==
    LET first == ChatSession(StartOfRun, <<>>)
        hi == <<"h", "i">>
        asked == AppendPair(<<first>>, first.id, Message(StartOfRun, hi, TRUE),
                            Message(StartOfRun + 1, <<>>, FALSE))
    IN  /\ now = StartOfRun
        /\ GEMINI_API_KEY = TRUE
        /\ store = Stored(<<first>>)
        /\ load = [awaiting |-> FALSE, storedHistory |-> ABSENT, committed |-> TRUE]
        /\ sessions = asked
        /\ activeSessionId = first.id
        /\ isLoading = TRUE
        /\ rendered = Rendered(asked, first.id, TRUE)
        /\ pc = "awaiting"
        /\ target = first.id
        /\ userMessage = Message(StartOfRun, hi, TRUE)
        /\ targetLost = FALSE
        /\ targetDeleted = FALSE
        /\ \E body \in StreamBodies :
               xhr = [readyState |-> "loading", body |-> body, status |-> 0,
                      lastResponseLength |-> 0, contents |-> History(<<>>, hi)]
        /\ promise = "pending"
        /\ chunks = <<>>
        /\ sends = 0

NextStream == OnProgress \/ OnLoadEnd \/ OnError \/ Finally \/ Render

SpecStream == InitStream /\ [][NextStream]_vars

\* ------------------------------------------------ a long run of new chats

\* a new chat in a millisecond that has none yet, up to MaxPersist sessions
CreateMore == now \notin Ids(sessions) /\ createNewChat(MaxPersist)

\* the next millisecond, once this one has its chat
TickMore ==
    /\ TaskReady
    /\ ~load.awaiting
    /\ now \in Ids(sessions)
    /\ now' = now + 1
    /\ UNCHANGED <<GEMINI_API_KEY, store, load, sessions, activeSessionId, isLoading,
                   rendered, pc, target, userMessage, targetLost, targetDeleted,
                   xhr, promise,
                   chunks, sends>>

NextPersist == LoadHistory \/ Render \/ CreateMore \/ TickMore

SpecPersist == Init /\ [][NextPersist]_vars

\* ------------------------------------------ a send on a session with a past

\* the messages of a stored session: user and model in turn, each with its
\* own text
PriorMessages(n) == [i \in 1..n |-> Message(i + 1, <<ToString(i)>>, i % 2 = 1)]

\* the store holds one session with up to MaxPrior messages, the run starts
\* later than every stored id
InitContext ==
    /\ now = MaxPrior + 2
    /\ GEMINI_API_KEY \in BOOLEAN
    /\ store \in {Stored(<<ChatSession(1, PriorMessages(n))>>) : n \in 0..MaxPrior}
    /\ load = [awaiting |-> TRUE, storedHistory |-> store, committed |-> FALSE]
    /\ sessions = <<>>
    /\ activeSessionId = NULL
    /\ isLoading = FALSE
    /\ rendered = Rendered(<<>>, NULL, FALSE)
    /\ pc = "idle"
    /\ target = NULL
    /\ userMessage = NoMessage
    /\ targetLost = FALSE
    /\ targetDeleted = FALSE
    /\ xhr = UNSENT
    /\ promise = "none"
    /\ chunks = <<>>
    /\ sends = 0

NextContext ==
    \/ LoadHistory
    \/ Render
    \/ HandleSendMessage
    \/ OnProgress
    \/ OnLoadEnd
    \/ OnError
    \/ Finally

SpecContext == InitContext /\ [][NextContext]_vars

\* the microtask that resumes handleSendMessage always runs
FairSpec == Spec /\ WF_vars(Finally)

\* React renders every update it has queued
FairRenderSpec == Spec /\ WF_vars(Finally) /\ WF_vars(Render)

\* ------------------------------------------------------------------- claims

ActiveSessionExists(ss, id) == ss # <<>> /\ id \in Ids(ss)

RECURSIVE FieldsFrom(_, _)
FieldsFrom(body, from) ==
    LET m == RegexExec(body, from) IN
    IF m.close = 0 THEN <<>> ELSE <<m>> \o FieldsFrom(body, m.close + 1)

Fields(body) == FieldsFrom(body, 1)

FieldValue(body, f) == DecodedText(SubSeq(body, f.open + 1, f.close - 1))

\* the values of the fields of body among picked, in order
RECURSIVE ValuesOf(_, _, _)
ValuesOf(body, fs, picked) ==
    IF fs = <<>> THEN <<>>
    ELSE (IF Head(fs) \in picked THEN <<FieldValue(body, Head(fs))>> ELSE <<>>)
         \o ValuesOf(body, Tail(fs), picked)

\* C2: when a whole body has arrived, in whatever growth events, the
\* concatenation of the onChunk arguments is the one a single growth event
\* with the whole body gives.
C2_AnyChunkingSameText ==
    (pc = "resuming" /\ promise = "resolved")
        => Flatten(chunks) = Flatten(ScanNewText(xhr.body))

\* C3: a growth event that ends inside the quoted value of a field that began
\* in it calls onChunk for the complete fields before it only; the growth
\* event that brings the rest of that value calls onChunk once with the decoded
\* value of the whole field, then for the complete fields after it.
C3_SplitFieldEmittedOnce ==
    [][xhr'.lastResponseLength > xhr.lastResponseLength =>
        LET body == xhr.body
            a == xhr.lastResponseLength
            b == xhr'.lastResponseLength
            fs == Fields(body)
            all == {fs[i] : i \in 1..Len(fs)}
        IN  \A f \in all :
              /\ (a < f.index /\ f.open <= b /\ b < f.close) =>
                    chunks' = chunks \o ValuesOf(body, fs,
                                  {g \in all : a < g.index /\ g.close <= b})
              /\ (f.open <= a /\ a < f.close /\ f.close <= b) =>
                    chunks' = chunks \o <<FieldValue(body, f)>>
                              \o ValuesOf(body, fs,
                                  {g \in all : f.close < g.index /\ g.close <= b})
      ]_vars

IsErrorChunk(c) ==
    c = API_KEY_ERROR \/ c \in {NetworkError(status) : status \in ErrorStatuses}

EndsWith(text, c) ==
    Len(text) >= Len(c) /\ SubSeq(text, Len(text) - Len(c) + 1, Len(text)) = c

\* C4: the promise resolves only on a 2xx final status; when it rejects,
\* exactly one error chunk was emitted, as the last onChunk call, and the last
\* message of the target session ends with it.
C4_FailureEmitsErrorChunk ==
    pc = "resuming" =>
        /\ promise = "resolved" => (xhr.status >= 200 /\ xhr.status < 300)
        /\ promise = "rejected" =>
              /\ Cardinality({i \in 1..Len(chunks) : IsErrorChunk(chunks[i])}) = 1
              /\ IsErrorChunk(chunks[Len(chunks)])
              /\ ~targetLost =>
                    \E i \in 1..Len(sessions) :
                            /\ sessions[i].id = target
                            /\ sessions[i].messages # <<>>
                            /\ EndsWith(sessions[i].messages[Len(sessions[i].messages)].text,
                                        chunks[Len(chunks)])

\* C5: when the engine settles and the target session was there throughout the
\* send, its last message is the placeholder of this send holding every chunk
\* in emission order, and the message before it is the user message with the
\* raw text.
C5_PlaceholderHoldsChunks ==
    (pc = "resuming" /\ ~targetLost) =>
        \E i \in 1..Len(sessions) :
                LET messages == sessions[i].messages
                    n == Len(messages)
                IN  /\ sessions[i].id = target
                    /\ n >= 2
                    /\ ~messages[n].isFromUser
                    /\ messages[n].text = Flatten(chunks)
                    /\ messages[n - 1] = userMessage

\* C6: isLoading is true from the accepted send until handleSendMessage has
\* resumed after the engine, and once the engine has settled isLoading becomes
\* false.
C6_LoadingUntilSettled ==
    /\ [](pc # "idle" => isLoading)
    /\ (pc = "resuming") ~> (~isLoading)

\* a send has run to its end: the handler has returned, isLoading is false
\* again and the screen still shows the send in flight
C6_Witness == sends = 1 /\ pc = "idle" /\ ~isLoading /\ rendered.isLoading

\* C7: a handleSendMessage call while isLoading is true changes no session and
\* starts no request.
C7_SendInFlightDropped ==
    [][(isLoading /\ HandleSendMessage)
         => UNCHANGED <<sessions, rendered, xhr, promise, pc, chunks, target>>]_vars

\* a request is out and the rendered active session exists: only isLoading
\* stands between a press of the send button and a second request
C7_Witness ==
    /\ isLoading /\ pc = "awaiting" /\ xhr.lastResponseLength > 0
    /\ Find(rendered.sessions, rendered.activeSessionId) # 0

\* C8: a handleSendMessage call with empty or white-space text changes no
\* session, starts no request and leaves isLoading as it was, false when idle.
C8_BlankTextDropped ==
    [][(\E inputText \in InputTexts, body \in Bodies :
            TrimIsEmpty(inputText) /\ handleSendMessage(inputText, body))
         => /\ UNCHANGED <<sessions, rendered, xhr, promise, pc, chunks, target>>
            /\ isLoading' = isLoading]_vars

\* nothing is in flight and the rendered active session exists: only the text
\* decides whether a press of the send button sends
C8_Witness ==
    /\ ~isLoading /\ ~rendered.isLoading /\ pc = "idle" /\ sends < MaxSends
    /\ load.committed
    /\ Find(rendered.sessions, rendered.activeSessionId) # 0
    /\ \E inputText \in InputTexts : TrimIsEmpty(inputText) /\ inputText # <<>>

\* C9: deleteSession of the active session when it is the only session leaves
\* exactly one session, with no messages, whose id is activeSessionId.
C9_DeleteOnlySession ==
    [][( /\ Len(sessions) = 1 /\ Len(rendered.sessions) = 1
         /\ sessions[1].id = activeSessionId
         /\ rendered.sessions[1].id = activeSessionId
         /\ rendered.activeSessionId = activeSessionId
         /\ deleteSession(activeSessionId) )
         => /\ Len(sessions') = 1
            /\ sessions'[1].messages = <<>>
            /\ activeSessionId' = sessions'[1].id]_vars

\* both stored sessions were deleted, the second as the only session: one
\* session made in this run is left, empty and active
C9_Witness ==
    /\ load.committed
    /\ load.storedHistory = Stored(OldSessions)
    /\ Len(sessions) = 1
    /\ sessions[1].id >= StartOfRun
    /\ sessions[1].messages = <<>>
    /\ activeSessionId = sessions[1].id
    /\ store = Stored(sessions)

\* C10: every value written to the store is the first
\* min(n, MAX_HISTORY_LENGTH) of the n rendered sessions, in their order.
C10_StoreHoldsFront ==
    [][store' # store =>
        LET n == Min(Len(rendered'.sessions), MAX_HISTORY_LENGTH) IN
        /\ store'.kind = "json"
        /\ Len(store'.value) = n
        /\ \A i \in 1..n : store'.value[i] = rendered'.sessions[i]]_vars

\* more than MAX_HISTORY_LENGTH sessions are rendered and the store holds
\* the MAX_HISTORY_LENGTH at the front
C10_Witness ==
    /\ Len(rendered.sessions) > MAX_HISTORY_LENGTH
    /\ store.kind = "json"
    /\ Len(store.value) = MAX_HISTORY_LENGTH
    /\ store.value[1] = rendered.sessions[1]

\* C11: with no GEMINI_API_KEY, streamGeminiResponse calls onChunk once, with
\* the text that says the key is not configured, rejects, and no request is
\* ever opened or sent.
C11_NoKeyNoRequest ==
    ~GEMINI_API_KEY =>
        /\ xhr = UNSENT
        /\ pc # "idle" => /\ pc = "resuming"
                          /\ promise = "rejected"
                          /\ chunks = <<API_KEY_ERROR>>

\* a send was accepted with no key: the engine has rejected, the handler has
\* not resumed yet, the placeholder shows the error text
C11_Witness ==
    /\ ~GEMINI_API_KEY
    /\ pc = "resuming"
    /\ chunks = <<API_KEY_ERROR>>
    /\ \E i \in 1..Len(sessions) :
          /\ sessions[i].id = target
          /\ Len(sessions[i].messages) >= 2
          /\ sessions[i].messages[Len(sessions[i].messages)].text = API_KEY_ERROR

\* C12: in every reachable state the ids of the sessions are pairwise
\* distinct, also when sessions are made at the same clock reading.
C12_SessionIdsDistinct ==
    \A i, j \in 1..Len(sessions) : i # j => sessions[i].id # sessions[j].id

\* C13: switchToSession(sessionId) makes sessionId the active id when a
\* session has that id, and leaves the active id as it was when none has.
C13_SwitchOnlyToExisting ==
    [][\A sessionId \in Ids(rendered.sessions) :
          switchToSession(sessionId) =>
              activeSessionId' = IF sessionId \in Ids(sessions)
                                 THEN sessionId ELSE activeSessionId]_vars

\* C14: the step of an accepted handleSendMessage appends two messages to the
\* end of the target session, the session sessions.find gives for the captured
\* id: the user message with the raw input text, then the assistant message,
\* whose text is what streamGeminiResponse has emitted inside the call (nothing
\* when a request goes out).  Its earlier messages and every other session of
\* the list are as before.
C14_SendAppendsPair ==
    [][\A inputText \in InputTexts, body \in Bodies :
          ( /\ handleSendMessage(inputText, body)
            /\ ~SendRefused(inputText)
            /\ Find(sessions, rendered.activeSessionId) # 0 )
          => LET t == Find(sessions, rendered.activeSessionId)
                 n == Len(sessions[t].messages)
             IN  /\ Len(sessions') = Len(sessions)
                 /\ \A i \in 1..Len(sessions) : i # t => sessions'[i] = sessions[i]
                 /\ sessions'[t].id = sessions[t].id
                 /\ Len(sessions'[t].messages) = n + 2
                 /\ SubSeq(sessions'[t].messages, 1, n) = sessions[t].messages
                 /\ sessions'[t].messages[n + 1].isFromUser
                 /\ sessions'[t].messages[n + 1].text = inputText
                 /\ ~sessions'[t].messages[n + 2].isFromUser
                 /\ sessions'[t].messages[n + 2].text = Flatten(chunks')]_vars

\* C15: the contents sent for a send on a session with n earlier messages are
\* the last min(n, CONTEXT_WINDOW_SIZE) of them, in their order, a user message
\* as role user and an assistant message as role model, then one role user
\* entry with the input text inside the Markdown instruction; the two messages
\* the send appends are not among them.
C15_ContextWindow ==
    xhr.readyState = "loading" =>
        LET messages == sessions[Find(sessions, target)].messages
            n == Len(messages) - 2
            w == IF n < CONTEXT_WINDOW_SIZE THEN n ELSE CONTEXT_WINDOW_SIZE
        IN  /\ Len(xhr.contents) = w + 1
            /\ \A i \in 1..w :
                  /\ xhr.contents[i].role =
                        (IF messages[n - w + i].isFromUser THEN "user" ELSE "model")
                  /\ xhr.contents[i].parts = <<[text |-> messages[n - w + i].text]>>
            /\ xhr.contents[w + 1].role = "user"
            /\ xhr.contents[w + 1].parts =
                  <<[text |-> <<"Please format your response in Markdown. Here is my question: ">>
                              \o messages[n + 1].text]>>

\* a request is out for a send on a session with more than
\* CONTEXT_WINDOW_SIZE earlier messages
C15_Witness ==
    /\ xhr.readyState = "loading"
    /\ Len(xhr.contents) = CONTEXT_WINDOW_SIZE + 1
    /\ \E i \in 1..Len(sessions) :
          /\ sessions[i].id = target
          /\ Len(sessions[i].messages) > CONTEXT_WINDOW_SIZE + 3

\* C16: deleteSession(sessionId) leaves the other sessions in their order with
\* their contents; when sessionId was active and sessions remain, the first of
\* them becomes active; when sessionId was not active, the active id stays.
C16_DeleteKeepsTheRest ==
    [][\A sessionId \in Ids(rendered.sessions) :
          deleteSession(sessionId) =>
              LET remaining == Filter(sessions, sessionId) IN
              /\ (remaining # <<>> \/ activeSessionId # sessionId)
                    => sessions' = remaining
              /\ (activeSessionId = sessionId /\ remaining # <<>>)
                    => activeSessionId' = remaining[1].id
              /\ activeSessionId # sessionId => activeSessionId' = activeSessionId]_vars

\* C17: once the target session of a send in flight has been deleted, every
\* later onChunk call leaves the session list as it is, and when the engine
\* has settled isLoading becomes false.
C17_ChunksAfterDeleteDropped ==
    /\ [][(targetDeleted /\ chunks' # chunks) => sessions' = sessions]_vars
    /\ (targetDeleted /\ pc = "resuming") ~> (~isLoading)

\* the target session was deleted while its request was out, the transport
\* has failed after that with its error chunk, and a session with messages is
\* in the list
C17_Witness ==
    /\ pc = "resuming"
    /\ targetDeleted
    /\ target \notin Ids(sessions)
    /\ load.committed
    /\ Len(chunks) >= 2
    /\ chunks[Len(chunks)] \in {NetworkError(status) : status \in ErrorStatuses}
    /\ \E i \in 1..Len(sessions) : sessions[i].messages # <<>>

\* C18: a growth event keeps the onChunk calls made so far and adds, in the
\* order of the body, one call for each field that lies wholly in the text the
\* event brings, with its value; it adds nothing for a field of the text
\* scanned before, and at most one more call, the last, for a field the event
\* cuts at its end.
C18_EmittedOnceInOrder ==
    [][xhr'.lastResponseLength > xhr.lastResponseLength =>
        LET body == xhr.body
            a == xhr.lastResponseLength
            b == xhr'.lastResponseLength
            fs == Fields(body)
            all == {fs[i] : i \in 1..Len(fs)}
            inside == {f \in all : a < f.index /\ f.close <= b}
            k == Cardinality(inside)
            added == Len(chunks') - Len(chunks)
        IN  /\ added >= k
            /\ SubSeq(chunks', 1, Len(chunks)) = chunks
            /\ SubSeq(chunks', Len(chunks) + 1, Len(chunks) + k)
                  = ValuesOf(body, fs, inside)
            /\ added > k =>
                  /\ added = k + 1
                  /\ \E f \in all : a < f.index /\ f.index <= b /\ b < f.close
      ]_vars

\* of the body with the fields "a\n", "" and "c", the first two have come in
\* growth events and were emitted in their order, the third is still to come
C18_Witness ==
    /\ xhr.readyState = "loading"
    /\ xhr.lastResponseLength < Len(xhr.body)
    /\ chunks = << <<"a", LF>>, <<>> >>

\* C19: while a send is in flight, the onChunk calls of a step extend the last
\* message of the target session, the session sessions.find gives for the id
\* captured when the send was accepted, by the chunks of the step in their
\* order, and leave the active session alone when that is another one;
\* switchToSession changes no session and createNewChat only puts the new,
\* empty session in front.
C19_ChunksGoToTarget ==
    [][pc = "awaiting" =>
        /\ chunks' # chunks =>
              LET t == Find(sessions, target)
                  c == Find(sessions, activeSessionId)
                  added == SubSeq(chunks', Len(chunks) + 1, Len(chunks'))
              IN  /\ Len(sessions') = Len(sessions)
                  /\ (c # 0 /\ c # t) => sessions'[c] = sessions[c]
                  /\ (t # 0 /\ sessions[t].messages # <<>>) =>
                        LET n == Len(sessions[t].messages) IN
                        sessions'[t] =
                            [sessions[t] EXCEPT !.messages[n].text = @ \o Flatten(added)]
        /\ SwitchToSession => sessions' = sessions
        /\ CreateNewChat =>
              sessions' = <<ChatSession(activeSessionId', <<>>)>> \o sessions
      ]_vars

\* the user went to another session, one with messages, while the send was in
\* flight; the transport has failed since and the target holds every chunk,
\* the error chunk included
C19_Witness ==
    /\ pc = "resuming"
    /\ activeSessionId # target
    /\ Len(chunks) >= 2
    /\ chunks[Len(chunks)] \in {NetworkError(status) : status \in ErrorStatuses}
    /\ Find(sessions, activeSessionId) # 0
    /\ sessions[Find(sessions, activeSessionId)].messages # <<>>
    /\ Find(sessions, target) # 0
    /\ LET messages == sessions[Find(sessions, target)].messages IN
       /\ messages # <<>>
       /\ messages[Len(messages)].text = Flatten(chunks)

\* C20: deleteSession of a session other than the target of the send in
\* flight leaves the target session as it is, with the user message, the
\* placeholder and the text folded so far, and the chunks emitted after it are
\* still appended to the target.
C20_DeleteOtherLosesNothing ==
    [][(pc = "awaiting" /\ Find(sessions, target) # 0) =>
        /\ \A sessionId \in Ids(rendered.sessions) :
              (sessionId # target /\ deleteSession(sessionId)) =>
                  /\ Find(sessions', target) # 0
                  /\ sessions'[Find(sessions', target)] = sessions[Find(sessions, target)]
        /\ (chunks' # chunks /\ sessions[Find(sessions, target)].messages # <<>>) =>
              LET t == Find(sessions, target)
                  n == Len(sessions[t].messages)
                  added == SubSeq(chunks', Len(chunks) + 1, Len(chunks'))
              IN  sessions'[t].messages[n].text
                      = sessions[t].messages[n].text \o Flatten(added)
      ]_vars

\* C21: the store changes only in steps that begin and end with isLoading
\* false, and never to an empty list; once the engine has settled with a list
\* that is not empty, the store comes to hold the list as it is then, on
\* screen and in the state, with the send over.
C21_SavedAfterSend ==
    /\ [][store' # store =>
            /\ ~isLoading /\ ~isLoading'
            /\ store'.kind = "json" /\ store'.value # <<>>]_vars
    /\ (pc = "resuming" /\ sessions # <<>>)
          ~> ( /\ pc = "idle" /\ ~isLoading /\ ~rendered.isLoading
               /\ rendered.sessions = sessions
               /\ store = Stored(HistoryToSave(sessions)) )

====
